---- MODULE Spec2Model ----
(***************************************************************************)
(* Model of data_creation/dataset_creation.py: the channel loader, the     *)
(* timeline merger (create_dataframe), the valid-range trimmer and the     *)
(* timestamp normaliser (process_dataframe), the epoch converter           *)
(* (clr_datetime_to_unix_time) and the module-level aggregation loop.      *)
(*                                                                         *)
(* CLR tick counts are 64-bit quantities (about 6.3e17 for present-day     *)
(* dates), beyond TLC's 32-bit integers.  They are kept exact as numbers   *)
(* written in base TicksPerSecond:                                         *)
(*     [lo, mid, hi]  stands for  hi*Base^2 + mid*Base + lo                *)
(* with 0 <= lo, mid < Base and hi a signed integer that carries the sign. *)
(* A second count is [lo, hi] = hi*Base + lo in the same way.              *)
(***************************************************************************)
EXTENDS Integers, Sequences, FiniteSets

VARIABLES
    pc,          \* position of the module-level script
    folder,      \* names of the *.csv files currently in raw_data
    files,       \* contents of the input files: name -> sequence of <<tick, cell>>
    csv_files,   \* the glob result of create_dataframe
    dataframes,  \* the list of loaded channel frames
    merged_df,   \* the frame built by create_dataframe
    disk,        \* output files: path -> table, for the paths that exist
    written,     \* paths this run has written
    stdout,      \* what the run has printed
    error,       \* the exception that ended the run, or "none"
    merges,      \* number of pd.merge calls made so far
    clr_in,      \* epoch converter on its own: the argument
    clr_out      \* epoch converter on its own: the outcome

vars == <<pc, folder, files, csv_files, dataframes, merged_df, disk, written,
          stdout, error, merges, clr_in, clr_out>>

-----------------------------------------------------------------------------
(* Exact arithmetic on tick counts *)

\* 10000000 ticks of 100 ns make one second; also the base of the limbs.
TicksPerSecond == 10000000

Base == TicksPerSecond

\* 621355968000000000 = 6213 * Base^2 + 5596800 * Base + 0
EpochDiffHi == 6213

EpochDiffMid == 5596800

CLR_UNIX_EPOCH_DIFF_TICKS == [lo |-> 0, mid |-> EpochDiffMid, hi |-> EpochDiffHi]

MkTick(h, m, l) == [lo |-> l, mid |-> m, hi |-> h]

\* a - b on tick counts, exact (Python integers do not overflow)
TickSub(a, b) ==
    LET l  == a.lo - b.lo
        b1 == IF l < 0 THEN 1 ELSE 0
        m  == a.mid - b.mid - b1
        b2 == IF m < 0 THEN 1 ELSE 0
    IN  [lo  |-> IF l < 0 THEN l + Base ELSE l,
         mid |-> IF m < 0 THEN m + Base ELSE m,
         hi  |-> a.hi - b.hi - b2]

TickLess(a, b) ==
    \/ a.hi < b.hi
    \/ a.hi = b.hi /\ a.mid < b.mid
    \/ a.hi = b.hi /\ a.mid = b.mid /\ a.lo < b.lo

TickLeq(a, b) == a = b \/ TickLess(a, b)

TickNegative(t) == t.hi < 0

\* Division toward zero, as C, Java or Rust integer division would give.
TruncDivTicks(x) ==
    IF x.hi < 0 /\ x.lo # 0
    THEN IF x.mid + 1 = Base
         THEN [lo |-> 0, hi |-> x.hi + 1]
         ELSE [lo |-> x.mid + 1, hi |-> x.hi]
    ELSE [lo |-> x.mid, hi |-> x.hi]

\* x // 10000000: Python's floor division.  In base TicksPerSecond the
\* quotient is the number without its lowest limb, for either sign, because
\* the low limbs are kept in 0..Base-1 and only hi is signed.
FloorDivTicks(x) == [lo |-> x.mid, hi |-> x.hi]

SecLess(a, b) == a.hi < b.hi \/ (a.hi = b.hi /\ a.lo < b.lo)

SecLeq(a, b) == a = b \/ SecLess(a, b)

\* q * 10000000 as a tick count
SecToTicks(q) == [lo |-> 0, mid |-> q.lo, hi |-> q.hi]

-----------------------------------------------------------------------------
(* pandas.Timestamp(value, unit='s') *)

\* pandas before 2.0 converts to nanoseconds in an int64:
\* |seconds| <= 9223372036 = 922 * Base + 3372036
NsMaxSec == [lo |-> 3372036, hi |-> 922]

NsMinSec == [lo |-> 6627964, hi |-> -923]

\* pandas from 2.0 keeps second resolution; a Timestamp is a datetime, whose
\* year is 1..9999: -62135596800 .. 253402300799 seconds
DtMinSec == [lo |-> 4403200, hi |-> -6214]

DtMaxSec == [lo |-> 2300799, hi |-> 25340]

Missing == [na |-> TRUE]

NaT == [ok |-> TRUE, nat |-> TRUE]

\* the error pandas raises for a second it cannot hold (OutOfBoundsDatetime,
\* a ValueError)
OutOfBounds == [ok |-> FALSE, exc |-> "OutOfBoundsDatetime"]

\* nano: whether the installed pandas holds every Timestamp in nanoseconds
pd_Timestamp(secs, nano) ==
    LET lower == IF nano THEN NsMinSec ELSE DtMinSec
        upper == IF nano THEN NsMaxSec ELSE DtMaxSec
    IN  IF SecLeq(lower, secs) /\ SecLeq(secs, upper)
        THEN [ok |-> TRUE, nat |-> FALSE, sec |-> secs]
        ELSE OutOfBounds

\* A converter that divides toward zero.
clr_datetime_to_unix_time_trunc(clr_datetime, nano) ==
    IF clr_datetime = Missing
    THEN NaT
    ELSE pd_Timestamp(
             TruncDivTicks(TickSub(clr_datetime, CLR_UNIX_EPOCH_DIFF_TICKS)), nano)

\* A converter that maps every failure to NaT instead of raising.
clr_datetime_to_unix_time_coerce(clr_datetime, nano) ==
    IF clr_datetime = Missing
    THEN NaT
    ELSE LET r == pd_Timestamp(
                      FloorDivTicks(TickSub(clr_datetime, CLR_UNIX_EPOCH_DIFF_TICKS)), nano)
         IN  IF r.ok THEN r ELSE NaT

clr_datetime_to_unix_time(clr_datetime, nano) ==
    IF clr_datetime = Missing
    THEN NaT
    ELSE LET unix_timestamp ==
                 FloorDivTicks(TickSub(clr_datetime, CLR_UNIX_EPOCH_DIFF_TICKS))
         IN  pd_Timestamp(unix_timestamp, nano)

-----------------------------------------------------------------------------
(* Inputs: the raw_data folder *)

\* largest number of records in the target channel's file
MaxRows == 2

TARGET == "fuelVolumeFlowRate"

OUT_CSV == "./data/final.csv"

\* aggregation_vals = ['3min', '10min'], in seconds
Aggr3min == 180

Aggr10min == 600

aggregation_vals == <<[name |-> "3min", sec |-> Aggr3min],
                      [name |-> "10min", sec |-> Aggr10min]>>

AggrPath(a) == IF a.name = "3min" THEN "./data/aggr_3min.csv" ELSE "./data/aggr_10min.csv"

Num(v) == [na |-> FALSE, v |-> v]

\* a degrees-minutes string such as "3730N": two degree digits, the minute
\* digits, one direction letter
Dms(d, m, dir) == [na |-> FALSE, deg |-> d, min |-> m, dir |-> dir]

isna(c) == c = Missing

\* 2024-01-01 00:00:00 UTC is 63839664000 s after 0001-01-01, that is
\* 6383 * Base + 9664000; At(s, sub) is s seconds and sub ticks later.
At(s, sub) == MkTick(6383, 9664000 + s, sub)

Tick1 == At(50, 0)

Tick2 == At(179, 9999999)

Tick3 == At(180, 0)

Tick4 == At(650, 0)

Tick5 == At(1300, 0)

Tick6 == At(1500, 0)

\* -1 ticks
NegativeTick == MkTick(-1, Base - 1, Base - 1)

\* DateTime.MaxValue.Ticks + 1 = 3155378976000000000 (year 10000)
TooLargeTick == MkTick(31553, 7897600, 0)

TargetTicks == {Tick1, Tick3, Tick4, Tick5}

TargetCells == {Missing, Num(1), Num(3)}

RECURSIVE SeqsUpTo(_, _)
\* the non-empty sequences over S of length at most n
SeqsUpTo(S, n) ==
    IF n = 0 THEN {}
    ELSE LET shorter == SeqsUpTo(S, n - 1)
         IN  {<<x>> : x \in S} \cup shorter
                \cup {Append(q, x) : q \in {r \in shorter : Len(r) = n - 1}, x \in S}

TargetSeries == SeqsUpTo(TargetTicks \X TargetCells, MaxRows)

SpeedSeries ==
    { <<<<Tick2, Num(5)>>>>,
      <<<<Tick1, Num(2)>>, <<Tick2, Missing>>, <<Tick6, Num(4)>>>>,
      <<<<Tick3, Num(2)>>, <<Tick3, Num(6)>>>>,
      <<<<Tick4, Num(1)>>, <<NegativeTick, Num(2)>>>>,
      <<<<TooLargeTick, Num(1)>>, <<Tick1, Num(2)>>>> }

LatitudeSeries == <<<<Tick1, Dms(<<3, 7>>, <<3, 0>>, "N")>>,
                    <<Tick3, Dms(<<3, 7>>, <<3, 0>>, "S")>>,
                    <<Tick4, Missing>>>>

LongitudeSeries == <<<<Tick4, Dms(<<2, 3>>, <<4, 5>>, "W")>>>>

AllNames == {TARGET, "latitude", "longitude", "speed", "timestamp"}

Folders ==
    { {TARGET, "latitude", "longitude", "speed"},
      {TARGET, "latitude", "longitude"},
      {TARGET, "latitude", "longitude", "speed", "timestamp"},
      {TARGET, "speed"},
      {"latitude", "longitude", "speed"},
      {} }

\* the order of the names: glob returns the directory's order, which is
\* arbitrary; the model takes the ascending and the descending order
NameRank(n) ==
    CASE n = TARGET      -> 1
      [] n = "latitude"  -> 2
      [] n = "longitude" -> 3
      [] n = "speed"     -> 4
      [] n = "timestamp" -> 5

RECURSIVE Ascending(_)
Ascending(S) ==
    IF S = {} THEN <<>>
    ELSE LET m == CHOOSE x \in S : \A y \in S : NameRank(x) <= NameRank(y)
         IN  <<m>> \o Ascending(S \ {m})

Reverse(q) == [i \in 1..Len(q) |-> q[Len(q) + 1 - i]]

\* glob(os.path.join(folder, "*.csv")), as the stems of the files found
glob(dir) == {Ascending(dir), Reverse(Ascending(dir))}

-----------------------------------------------------------------------------
(* Frames.  A frame is [columns: sequence of names, rows: sequence of        *)
(* [idx: the row's index label, c: column name -> cell]].                    *)

RangeIndexed(cols, cells) ==
    [columns |-> cols,
     rows    |-> [i \in 1..Len(cells) |-> [idx |-> i - 1, c |-> cells[i]]]]

ColSet(df) == {df.columns[i] : i \in 1..Len(df.columns)}

Timestamps(df) == {df.rows[i].c["timestamp"] : i \in 1..Len(df.rows)}

\* pd.read_csv(file, header=None, names=['timestamp', column_name]) that
\* accepts a repeated name (pandas renames the second one), as a reader
\* without the duplicate-name check would.
read_channel_mangling(column_name) ==
    LET second == IF column_name = "timestamp" THEN "timestamp.1" ELSE column_name
    IN  [ok |-> TRUE,
         df |-> RangeIndexed(<<"timestamp", second>>,
                    [i \in 1..Len(files[column_name]) |->
                        [col \in {"timestamp", second} |->
                            IF col = "timestamp" THEN files[column_name][i][1]
                            ELSE files[column_name][i][2]]])]

\* pd.read_csv(file, header=None, names=['timestamp', column_name]):
\* pandas refuses a names list with a repeated entry before it reads the file.
\* The input files hold at least one record.
read_channel(column_name) ==
    IF column_name = "timestamp"
    THEN [ok |-> FALSE, exc |-> "ValueError: Duplicate names are not allowed."]
    ELSE [ok |-> TRUE,
          df |-> RangeIndexed(<<"timestamp", column_name>>,
                     [i \in 1..Len(files[column_name]) |->
                         [col \in {"timestamp", column_name} |->
                             IF col = "timestamp" THEN files[column_name][i][1]
                             ELSE files[column_name][i][2]]])]

RECURSIVE SortedTicks(_)
\* the ticks of S in ascending order
SortedTicks(S) ==
    IF S = {} THEN <<>>
    ELSE LET m == CHOOSE x \in S : \A y \in S : TickLeq(x, y)
         IN  <<m>> \o SortedTicks(S \ {m})

RECURSIVE Concat(_)
Concat(qq) == IF qq = <<>> THEN <<>> ELSE Head(qq) \o Concat(Tail(qq))

SelectRows(df, key) == SelectSeq(df.rows, LAMBDA r : r.c["timestamp"] = key)

\* the value columns of a frame: every column but the join key
ValueCols(df) == SelectSeq(df.columns, LAMBDA n : n # "timestamp")

\* one joined row: the key, the left cells, the right cells; a side that has
\* no row for the key (given as Missing) holds missing values
Joined(key, cols, l, ldf, r, rdf) ==
    [col \in cols |->
        IF col = "timestamp" THEN key
        ELSE IF col \in ColSet(ldf)
             THEN (IF l = Missing THEN Missing ELSE l.c[col])
             ELSE (IF r = Missing THEN Missing ELSE r.c[col])]

\* the rows a join makes for one key, given the left and right rows having it
KeyRows(key, cols, ldf, rdf, keepLeftOnly, keepRightOnly) ==
    LET L == SelectRows(ldf, key)
        R == SelectRows(rdf, key)
    IN  IF L # <<>> /\ R # <<>>
        THEN Concat([i \in 1..Len(L) |->
                        [j \in 1..Len(R) |-> Joined(key, cols, L[i], ldf, R[j], rdf)]])
        ELSE IF L # <<>>
        THEN (IF keepLeftOnly
              THEN [i \in 1..Len(L) |-> Joined(key, cols, L[i], ldf, Missing, rdf)]
              ELSE <<>>)
        ELSE (IF keepRightOnly
              THEN [j \in 1..Len(R) |-> Joined(key, cols, Missing, ldf, R[j], rdf)]
              ELSE <<>>)

JoinOn(ldf, rdf, keepLeftOnly, keepRightOnly) ==
    LET cols == ColSet(ldf) \cup ColSet(rdf)
        keys == SortedTicks(Timestamps(ldf) \cup Timestamps(rdf))
    IN  RangeIndexed(ldf.columns \o ValueCols(rdf),
            Concat([k \in 1..Len(keys) |->
                       KeyRows(keys[k], cols, ldf, rdf, keepLeftOnly, keepRightOnly)]))

\* pd.merge(left, right, on='timestamp', how='inner')
pd_merge_inner(ldf, rdf) == JoinOn(ldf, rdf, FALSE, FALSE)

\* pd.merge(left, right, on='timestamp', how='outer'): the union of the keys
\* of both frames, keys in ascending order, one row per pair of matching
\* rows, a fresh RangeIndex.  The value columns of the two sides have
\* different names here (they are the stems of different files).
pd_merge(ldf, rdf) == JoinOn(ldf, rdf, TRUE, TRUE)

RECURSIVE MergeAll(_, _)
\* for df in dataframes[1:]: merged_df = pd.merge(merged_df, df, ...)
MergeAll(acc, rest) ==
    IF rest = <<>> THEN acc ELSE MergeAll(pd_merge(acc, Head(rest)), Tail(rest))

RECURSIVE StableSort(_)
\* rows in ascending tick order, rows of equal tick in their previous order
StableSort(rows) ==
    IF rows = <<>> THEN <<>>
    ELSE LET i == CHOOSE k \in 1..Len(rows) :
                      /\ \A j \in 1..Len(rows) :
                             TickLeq(rows[k].c["timestamp"], rows[j].c["timestamp"])
                      /\ \A j \in 1..(k - 1) :
                             rows[j].c["timestamp"] # rows[k].c["timestamp"]
         IN  <<rows[i]>> \o
             StableSort(SubSeq(rows, 1, i - 1) \o SubSeq(rows, i + 1, Len(rows)))

\* df.sort_values(by='timestamp'): rows reordered, index labels kept
sort_values(df) == [df EXCEPT !.rows = StableSort(df.rows)]

\* df.to_csv(path, index=False): the columns and the cells, no index
to_csv(df) == [columns |-> df.columns,
               cells   |-> [i \in 1..Len(df.rows) |-> df.rows[i].c]]

\* pd.read_csv(path): the header row names the columns, a fresh RangeIndex
read_csv(file) == RangeIndexed(file.columns, file.cells)

-----------------------------------------------------------------------------
(* process_dataframe: the valid-range trimmer and the timestamp normaliser *)

\* Python's None as an index label; the labels of a frame are 0, 1, 2, ...
None == -1

ValidPositions(df, col) == {i \in 1..Len(df.rows) : ~isna(df.rows[i].c[col])}

Min(S) == CHOOSE x \in S : \A y \in S : x <= y

Max(S) == CHOOSE x \in S : \A y \in S : x >= y

\* df[col].first_valid_index(): the label of the first non-missing row
first_valid_index(df, col) ==
    IF ValidPositions(df, col) = {} THEN None
    ELSE df.rows[Min(ValidPositions(df, col))].idx

\* df[col].last_valid_index(): the label of the last non-missing row
last_valid_index(df, col) ==
    IF ValidPositions(df, col) = {} THEN None
    ELSE df.rows[Max(ValidPositions(df, col))].idx

PositionOf(df, label) == CHOOSE i \in 1..Len(df.rows) : df.rows[i].idx = label

\* df.loc[label:]: from the row labelled label to the end
loc_from(df, label) ==
    [df EXCEPT !.rows = SubSeq(df.rows, PositionOf(df, label), Len(df.rows))]

\* df.loc[:label]: from the start through the row labelled label, inclusive
loc_to(df, label) ==
    [df EXCEPT !.rows = SubSeq(df.rows, 1, PositionOf(df, label))]

\* df.iloc[:label]: positions before label, the end excluded
iloc_to(df, label) ==
    [df EXCEPT !.rows = SubSeq(df.rows, 1, PositionOf(df, label) - 1)]

\* df.reset_index(drop=True, inplace=True)
reset_index(df) == [df EXCEPT !.rows = [i \in 1..Len(df.rows) |->
                                           [idx |-> i - 1, c |-> df.rows[i].c]]]

\* A trimmer whose second slice leaves the end label out.
trim_valid_range_exclusive(df, pred_column) ==
    LET first_valid == first_valid_index(df, pred_column)
        df1 == IF first_valid # None
               THEN reset_index(loc_from(df, first_valid))
               ELSE df
        last_valid == last_valid_index(df1, pred_column)
    IN  IF last_valid # None
        THEN reset_index(iloc_to(df1, last_valid))
        ELSE df1

\* lines 70-82 of process_dataframe
trim_valid_range(df, pred_column) ==
    LET first_valid == first_valid_index(df, pred_column)
        df1 == IF first_valid # None
               THEN reset_index(loc_from(df, first_valid))
               ELSE df
        last_valid == last_valid_index(df1, pred_column)
    IN  IF last_valid # None
        THEN reset_index(loc_to(df1, last_valid))
        ELSE df1

\* the cell of the datetime column for a converter result
DatetimeCell(r) == IF r.nat THEN Missing ELSE [na |-> FALSE, sec |-> r.sec]

\* lines 84-88: df['datetime'] = df['timestamp'].apply(...), then the raw
\* column is dropped; the new column comes last
normalize(df, nano) ==
    LET conv == [i \in 1..Len(df.rows) |->
                    clr_datetime_to_unix_time(df.rows[i].c["timestamp"], nano)]
        cols == ValueCols(df) \o <<"datetime">>
    IN  IF \E i \in 1..Len(conv) : ~conv[i].ok
        THEN OutOfBounds
        ELSE [ok |-> TRUE,
              df |-> [columns |-> cols,
                      rows |-> [i \in 1..Len(df.rows) |->
                          [idx |-> df.rows[i].idx,
                           c   |-> [col \in (ColSet(df) \ {"timestamp"}) \cup {"datetime"} |->
                                      IF col = "datetime" THEN DatetimeCell(conv[i])
                                      ELSE df.rows[i].c[col]]]]]]

\* process_dataframe(folder, filename, pred_column) up to its to_csv:
\* the exception it raises, or the frame it writes
process_dataframe(dir, file, pred_column, nano) ==
    LET df == read_csv(file)
        num_of_columns == Cardinality(dir)
    IN  IF Len(df.columns) # num_of_columns + 1
        THEN [ok |-> FALSE, exc |-> "AssertionError"]
        ELSE IF pred_column \notin ColSet(df)
        THEN [ok |-> FALSE, exc |-> "KeyError: 'fuelVolumeFlowRate'"]
        ELSE normalize(trim_valid_range(df, pred_column), nano)

-----------------------------------------------------------------------------
(* The aggregation loop.  Numbers are exact fractions [n, d] in lowest      *)
(* terms with d > 0; a standard deviation is kept as its square.            *)

Abs(x) == IF x < 0 THEN -x ELSE x

RECURSIVE Gcd(_, _)
Gcd(a, b) == IF b = 0 THEN a ELSE Gcd(b, a % b)

Rat(n, d) ==
    LET g == Gcd(Abs(n), Abs(d))
        s == IF d < 0 THEN -1 ELSE 1
    IN  [n |-> (s * n) \div g, d |-> (s * d) \div g]

RAdd(a, b) == Rat(a.n * b.d + b.n * a.d, a.d * b.d)

RSub(a, b) == Rat(a.n * b.d - b.n * a.d, a.d * b.d)

RMul(a, b) == Rat(a.n * b.n, a.d * b.d)

RDivInt(a, k) == Rat(a.n, a.d * k)

RECURSIVE RSum(_)
RSum(q) == IF q = <<>> THEN Rat(0, 1) ELSE RAdd(Head(q), RSum(Tail(q)))

RECURSIVE DigitsValue(_)
\* float("37") = 37: the number a string of decimal digits denotes
DigitsValue(ds) ==
    IF ds = <<>> THEN 0 ELSE 10 * DigitsValue(SubSeq(ds, 1, Len(ds) - 1)) + ds[Len(ds)]

MinutesPerDegree == 60

\* dms_string_to_decimal(dms_string)
dms_string_to_decimal(dms_string) ==
    IF isna(dms_string) THEN Missing
    ELSE LET degrees == DigitsValue(dms_string.deg)
             minutes == DigitsValue(dms_string.min)
             decimal_degrees == RAdd(Rat(degrees, 1), Rat(minutes, MinutesPerDegree))
         IN  IF dms_string.dir \in {"S", "W"}
             THEN Num(RSub(Rat(0, 1), decimal_degrees))
             ELSE Num(decimal_degrees)

\* the number a numeric cell of the file holds
AsNumber(col, cell) ==
    IF isna(cell) THEN Missing
    ELSE IF col \in {"latitude", "longitude"} THEN dms_string_to_decimal(cell)
    ELSE Num(Rat(cell.v, 1))

\* a second count as an integer; the dates of the aggregated rows are near
\* the present, where this fits
SecInt(s) == s.hi * Base + s.lo

SecondsPerDay == 86400

\* the non-missing numbers of a column among the given rows
Contributing(rows, col) ==
    LET present == SelectSeq(rows, LAMBDA r : ~isna(AsNumber(col, r.c[col])))
    IN  [i \in 1..Len(present) |-> AsNumber(col, present[i].c[col]).v]

\* mean of a bucket's values: missing when there is none
agg_mean(xs) ==
    IF Len(xs) = 0 THEN Missing ELSE Num(RDivInt(RSum(xs), Len(xs)))

SumSqDev(xs) ==
    LET m == RDivInt(RSum(xs), Len(xs))
    IN  RSum([i \in 1..Len(xs) |-> RMul(RSub(xs[i], m), RSub(xs[i], m))])

\* A population standard deviation (ddof=0): defined for a single value.
agg_std_population(xs) ==
    IF Len(xs) = 0 THEN Missing
    ELSE [na |-> FALSE, var |-> RDivInt(SumSqDev(xs), Len(xs))]

\* std of a bucket's values, ddof=1: missing below two values
agg_std(xs) ==
    IF Len(xs) < 2 THEN Missing
    ELSE [na |-> FALSE, var |-> RDivInt(SumSqDev(xs), Len(xs) - 1)]

RowSec(r) == SecInt(r.c["datetime"].sec)

\* the calendar seconds of the rows; a row without a time (NaT) is in no bucket
RowSecs(df) ==
    {RowSec(df.rows[i]) : i \in {j \in 1..Len(df.rows) : ~isna(df.rows[j].c["datetime"])}}

\* the start of the bucket holding second t: buckets of period seconds,
\* left-closed, counted from the midnight before the first row
\* (origin='start_day')
BucketStart(t, first, period) ==
    LET origin == (first \div SecondsPerDay) * SecondsPerDay
    IN  origin + ((t - origin) \div period) * period

BucketRow(df, start, period) ==
    LET members == SelectSeq(df.rows,
                       LAMBDA r : /\ ~isna(r.c["datetime"])
                                  /\ start <= RowSec(r)
                                  /\ RowSec(r) < start + period)
    IN  [datetime |-> start,
         stat     |-> [col \in ColSet(df) \ {"datetime"} |->
                          [mean |-> agg_mean(Contributing(members, col)),
                           std  |-> agg_std(Contributing(members, col))]]]

\* A grouping by bucket that emits only the buckets that hold a row.
resample_agg_occupied(df, period) ==
    LET secs   == RowSecs(df)
        starts == {BucketStart(t, Min(secs), period) : t \in secs}
        order  == [k \in 1..Cardinality(starts) |->
                      CHOOSE x \in starts : Cardinality({y \in starts : y < x}) = k - 1]
    IN  [k \in 1..Len(order) |-> BucketRow(df, order[k], period)]

\* df.resample(aggregation).agg(['mean', 'std']) followed by reset_index():
\* one row per bucket from the first row's bucket to the last row's bucket
resample_agg(df, period) ==
    LET secs  == RowSecs(df)
        first == BucketStart(Min(secs), Min(secs), period)
        last  == BucketStart(Max(secs), Min(secs), period)
        nb    == ((last - first) \div period) + 1
    IN  [k \in 1..nb |-> BucketRow(df, first + (k - 1) * period, period)]

\* one pass of the loop body up to its to_csv: the exception it raises, or
\* the table it writes
aggregate(file, period) ==
    LET df == read_csv(file)
    IN  IF "latitude" \notin ColSet(df) \/ "longitude" \notin ColSet(df)
        THEN [ok |-> FALSE, exc |-> "KeyError: 'latitude' or 'longitude'"]
        ELSE [ok |-> TRUE,
              table |-> [columns |-> SelectSeq(df.columns, LAMBDA n : n # "datetime"),
                         rows    |-> resample_agg(df, period)]]

-----------------------------------------------------------------------------
(* The script: lines 147-189, run at import *)

NoFrame == [columns |-> <<>>, rows |-> <<>>]

NoFiles == [path \in {} |-> NoFrame]

Printed(text) == [level |-> "print", text |-> text]

Content(dir, series) ==
    [n \in AllNames |->
        IF n \notin dir THEN <<>>
        ELSE CASE n = TARGET      -> series.target
               [] n = "speed"     -> series.speed
               [] n = "latitude"  -> LatitudeSeries
               [] n = "longitude" -> LongitudeSeries
               [] n = "timestamp" -> <<<<Tick1, Num(1)>>>>]

Init ==
    /\ pc = "load"
    /\ folder \in Folders
    /\ \E t \in (IF TARGET \in folder THEN TargetSeries ELSE {<<>>}),
          s \in (IF "speed" \in folder THEN SpeedSeries ELSE {<<>>}) :
            files = Content(folder, [target |-> t, speed |-> s])
    /\ csv_files = <<>>
    /\ dataframes = <<>>
    /\ merged_df = NoFrame
    /\ disk = NoFiles
    /\ written = {}
    /\ stdout = <<>>
    /\ error = "none"
    /\ merges = 0
    /\ clr_in = Missing
    /\ clr_out = NaT

\* create_dataframe, lines 25-35: glob, then one read_csv per file
LoadChannels ==
    /\ pc = "load"
    /\ \E found \in glob(folder) :
          LET read   == [i \in 1..Len(found) |-> read_channel(found[i])]
              failed == {i \in 1..Len(found) : ~read[i].ok}
              upto   == IF failed = {} THEN Len(found) ELSE Min(failed) - 1
          IN  /\ csv_files' = found
              /\ dataframes' = [i \in 1..upto |-> read[i].df]
              /\ error' = IF failed = {} THEN "none" ELSE read[Min(failed)].exc
              /\ pc' = IF failed = {} THEN "merge" ELSE "failed"
    /\ UNCHANGED <<folder, files, merged_df, disk, written, stdout, merges,
                   clr_in, clr_out>>

\* create_dataframe, lines 37-47: pairwise merge, sort, save, print
MergeAndSave ==
    /\ pc = "merge"
    /\ IF dataframes = <<>>
       THEN /\ error' = "IndexError"
            /\ pc' = "failed"
            /\ UNCHANGED <<merged_df, disk, written, stdout, merges>>
       ELSE /\ merged_df' = sort_values(MergeAll(Head(dataframes), Tail(dataframes)))
            /\ merges' = Len(dataframes) - 1
            /\ disk' = [path \in DOMAIN disk \cup {OUT_CSV} |->
                           IF path = OUT_CSV THEN to_csv(merged_df') ELSE disk[path]]
            /\ written' = written \cup {OUT_CSV}
            /\ stdout' = Append(stdout, Printed("Concatenated CSV file saved to ./data/final.csv"))
            /\ pc' = "process"
            /\ UNCHANGED error
    /\ UNCHANGED <<folder, files, csv_files, dataframes, clr_in, clr_out>>

\* raw_data is a directory other programs write to: between the glob of
\* create_dataframe and the glob of process_dataframe a file may arrive in it
\* or leave it
FolderChanges ==
    /\ pc = "process"
    /\ folder = {csv_files[i] : i \in 1..Len(csv_files)}
    /\ \/ folder' = folder \cup {"extra"}
       \/ folder' = folder \ {csv_files[1]}
    /\ UNCHANGED <<pc, files, csv_files, dataframes, merged_df, disk, written,
                   stdout, error, merges, clr_in, clr_out>>

AggrPc(i) == IF i = 1 THEN "aggregate_3min" ELSE "aggregate_10min"

\* process_dataframe(folder=data_folder, filename=out_csv, pred_column=...)
ProcessDataframe ==
    /\ pc = "process"
    /\ \E nano \in BOOLEAN :
          LET r == process_dataframe(folder, disk[OUT_CSV], TARGET, nano)
          IN  IF r.ok
              THEN /\ disk' = [disk EXCEPT ![OUT_CSV] = to_csv(r.df)]
                   /\ pc' = AggrPc(1)
                   /\ UNCHANGED error
              ELSE /\ error' = r.exc
                   /\ pc' = "failed"
                   /\ UNCHANGED disk
    /\ UNCHANGED <<folder, files, csv_files, dataframes, merged_df, written,
                   stdout, merges, clr_in, clr_out>>

\* one pass of the loop over aggregation_vals, lines 161-189
Aggregate ==
    \E i \in 1..Len(aggregation_vals) :
        /\ pc = AggrPc(i)
        /\ LET a == aggregation_vals[i]
               r == aggregate(disk[OUT_CSV], a.sec)
           IN  IF r.ok
               THEN /\ stdout' = Append(stdout,
                                    Printed(IF i = 1 THEN "Created 3minute aggregated data"
                                          ELSE "Created 10minute aggregated data"))
                    /\ disk' = [path \in DOMAIN disk \cup {AggrPath(a)} |->
                                   IF path = AggrPath(a) THEN r.table ELSE disk[path]]
                    /\ written' = written \cup {AggrPath(a)}
                    /\ pc' = IF i < Len(aggregation_vals) THEN AggrPc(i + 1) ELSE "done"
                    /\ UNCHANGED error
               ELSE /\ error' = r.exc
                    /\ pc' = "failed"
                    /\ UNCHANGED <<stdout, disk, written>>
        /\ UNCHANGED <<folder, files, csv_files, dataframes, merged_df, merges,
                       clr_in, clr_out>>

Next == LoadChannels \/ MergeAndSave \/ FolderChanges \/ ProcessDataframe \/ Aggregate

Spec == Init /\ [][Next]_vars

-----------------------------------------------------------------------------
(* The epoch converter on its own *)

EpochHi == {-1, 0, 5291, 6213, 6383, 7135, 31553, 50000}

EpochMid == {0, 2224763, 2224764, 5596799, 5596800, 7897599, 7897600,
             8968836, 8968837, Base - 1}

EpochLo == {0, 1, Base - 1}

EpochInputs == {Missing} \cup {MkTick(h, m, l) : h \in EpochHi, m \in EpochMid, l \in EpochLo}

InitEpoch ==
    /\ pc = "call"
    /\ clr_in \in EpochInputs
    /\ clr_out = NaT
    /\ folder = {}
    /\ files = Content({}, [target |-> <<>>, speed |-> <<>>])
    /\ csv_files = <<>>
    /\ dataframes = <<>>
    /\ merged_df = NoFrame
    /\ disk = NoFiles
    /\ written = {}
    /\ stdout = <<>>
    /\ error = "none"
    /\ merges = 0

\* one call of clr_datetime_to_unix_time(clr_in)
Convert ==
    /\ pc = "call"
    /\ \E nano \in BOOLEAN : clr_out' = clr_datetime_to_unix_time(clr_in, nano)
    /\ pc' = "return"
    /\ UNCHANGED <<folder, files, csv_files, dataframes, merged_df, disk, written,
                   stdout, error, merges, clr_in>>

NextEpoch == Convert

SpecEpoch == InitEpoch /\ [][NextEpoch]_vars

-----------------------------------------------------------------------------
(* Properties *)

\* process_dataframe has returned normally in this run
Processed ==
    \/ pc \in {"aggregate_3min", "aggregate_10min", "done"}
    \/ pc = "failed" /\ error = "KeyError: 'latitude' or 'longitude'"

\* create_dataframe has returned normally in this run
Created == merged_df # NoFrame

\* positions of the merged table whose target value is present
TargetValid ==
    IF TARGET \in ColSet(merged_df)
    THEN {i \in 1..Len(merged_df.rows) : ~isna(merged_df.rows[i].c[TARGET])}
    ELSE {}

\* the ticks recorded in the files create_dataframe loaded
InputTicks ==
    UNION {{files[csv_files[k]][i][1] : i \in 1..Len(files[csv_files[k]])} :
              k \in 1..Len(csv_files)}

\* row k of the processed file is row j of the merged table: the same cells,
\* and the calendar second of the same tick
SameRow(k, j) ==
    LET out == disk[OUT_CSV].cells[k]
        raw == merged_df.rows[j].c
    IN  /\ \A col \in ColSet(merged_df) \ {"timestamp"} : out[col] = raw[col]
        /\ out["datetime"] =
               [na |-> FALSE,
                sec |-> FloorDivTicks(TickSub(raw["timestamp"], CLR_UNIX_EPOCH_DIFF_TICKS))]

\* C1: once create_dataframe has merged the loaded series, the timestamps of
\* the merged table's rows are exactly the union of the timestamps of the
\* series: none is lost and none is invented.
C1_MergedTimestampsAreUnion ==
    /\ Created => Timestamps(merged_df) = InputTicks
    /\ pc = "process" =>
           {disk[OUT_CSV].cells[i]["timestamp"] :
               i \in 1..Len(disk[OUT_CSV].cells)} = InputTicks

\* a merge of at least three series in which one series lacks a timestamp
\* that another has, and two series share one
C1_Witness ==
    /\ Created
    /\ merges >= 2
    /\ \E a, b \in 1..Len(dataframes) :
          /\ a # b
          /\ Timestamps(dataframes[a]) \ Timestamps(dataframes[b]) # {}
          /\ Timestamps(dataframes[a]) \cap Timestamps(dataframes[b]) # {}

\* C2: when the target has a non-missing value, process_dataframe keeps
\* exactly the rows from the first to the last non-missing target row,
\* inclusive and in their order, interior rows with a missing target included.
C2_TrimKeepsValidRange ==
    (Processed /\ TargetValid # {}) =>
        LET first == Min(TargetValid)
            last  == Max(TargetValid)
            kept  == disk[OUT_CSV].cells
        IN  /\ Len(kept) = last - first + 1
            /\ \A k \in 1..Len(kept) : SameRow(k, first + k - 1)

\* rows are cut at both ends and a row with a missing target stays inside
C2_Witness ==
    /\ Processed
    /\ TargetValid # {}
    /\ Min(TargetValid) > 1
    /\ Max(TargetValid) < Len(merged_df.rows)
    /\ \E i \in 1..Len(merged_df.rows) :
          /\ Min(TargetValid) < i
          /\ i < Max(TargetValid)
          /\ i \notin TargetValid
    /\ Len(disk[OUT_CSV].cells) = Max(TargetValid) - Min(TargetValid) + 1

WarningEmitted == \E i \in 1..Len(stdout) : stdout[i].level = "warning"

\* the trimmer saw a target column without any value and returned
AllMissingTrimmed ==
    /\ Processed
    /\ TARGET \in ColSet(merged_df)
    /\ TargetValid = {}

\* C3: when the target column has no value at all, the trimmer returns every
\* row unchanged, raises nothing and emits a warning.
C3_AllMissingUnchangedWithWarning ==
    AllMissingTrimmed =>
        /\ Len(disk[OUT_CSV].cells) = Len(merged_df.rows)
        /\ \A k \in 1..Len(merged_df.rows) : SameRow(k, k)
        /\ WarningEmitted

\* what the code does in that case: every row kept, nothing raised, nothing
\* reported
C3_AllMissingUnchangedSilently ==
    AllMissingTrimmed =>
        /\ Len(disk[OUT_CSV].cells) = Len(merged_df.rows)
        /\ \A k \in 1..Len(merged_df.rows) : SameRow(k, k)
        /\ ~WarningEmitted

\* process_dataframe has compared the column count with the file count and
\* they differ
ColumnCountMismatch ==
    /\ Created
    /\ pc # "process"
    /\ Len(merged_df.columns) # Cardinality(folder) + 1

\* C4: a column count different from the number of files plus one aborts the
\* run with an AssertionError, and the run has then written no output file.
C4_MismatchAbortsWithoutOutput ==
    ColumnCountMismatch =>
        /\ pc = "failed"
        /\ error = "AssertionError"
        /\ written = {}

\* what the code does: it aborts, after create_dataframe wrote the raw file
C4_MismatchAbortsAfterRawFile ==
    ColumnCountMismatch =>
        /\ pc = "failed"
        /\ error = "AssertionError"
        /\ written = {OUT_CSV}


\* the argument is a present, non-negative tick count and the call is over
ConvertedPresent ==
    /\ pc = "return"
    /\ clr_in # Missing
    /\ ~TickNegative(clr_in)

\* q = floor(x / 10000000): x - q * 10000000 lies in 0 .. 9999999
IsFloorOf(q, x) ==
    LET r == TickSub(x, SecToTicks(q))
    IN  r.hi = 0 /\ r.mid = 0 /\ 0 <= r.lo /\ r.lo < TicksPerSecond

\* the ticks whose second every pandas holds: 1677-09-21 00:12:44 to
\* 2262-04-11 23:47:16, the seconds NsMinSec .. NsMaxSec after the epoch
NsMinTick == MkTick(5291, 2224764, 0)

NsMaxTick == MkTick(7135, 8968836, Base - 1)

ClrMaxTick == MkTick(31553, 7897599, Base - 1)

BadTick(t) == TickNegative(t) \/ TickLess(ClrMaxTick, t)

\* the ticks of the rows process_dataframe hands to the converter: those of
\* the merged table within the target's valid range
GivenToConverter ==
    IF TargetValid = {}
    THEN {merged_df.rows[i].c["timestamp"] : i \in 1..Len(merged_df.rows)}
    ELSE {merged_df.rows[i].c["timestamp"] : i \in Min(TargetValid)..Max(TargetValid)}

\* process_dataframe got as far as converting the timestamps
ConversionAttempted ==
    \/ Processed
    \/ pc = "failed" /\ error = "OutOfBoundsDatetime"

DatetimeWritten ==
    /\ OUT_CSV \in DOMAIN disk
    /\ \E i \in 1..Len(disk[OUT_CSV].columns) : disk[OUT_CSV].columns[i] = "datetime"

NameCollision ==
    /\ pc # "load"
    /\ \/ \E i, j \in 1..Len(csv_files) : i # j /\ csv_files[i] = csv_files[j]
       \/ \E i \in 1..Len(csv_files) : csv_files[i] = "timestamp"

\* C7: a collision of derived column names rejects the run with a naming
\* error before any merge is made and before the merged file is written.
C7_CollisionRejectedBeforeMerge ==
    NameCollision =>
        /\ pc = "failed"
        /\ error = "ValueError: Duplicate names are not allowed."
        /\ merges = 0
        /\ merged_df = NoFrame
        /\ written = {}
        /\ OUT_CSV \notin DOMAIN disk

\* the colliding file was read after other files had loaded
C7_Witness ==
    /\ NameCollision
    /\ pc = "failed"
    /\ Len(dataframes) > 0
    /\ merges = 0


\* the aggregated tables on disk, each with the length of its buckets
AggregatedTables ==
    {[table |-> disk[AggrPath(aggregation_vals[i])], period |-> aggregation_vals[i].sec] :
        i \in {k \in 1..Len(aggregation_vals) : AggrPath(aggregation_vals[k]) \in DOMAIN disk}}

\* the calendar second of row i of the normalized file
NormalizedSec(i) == SecInt(disk[OUT_CSV].cells[i]["datetime"].sec)

NormalizedRows == 1..Len(disk[OUT_CSV].cells)

\* the rows of the normalized file that fall in the bucket starting at start
InBucket(start, period) ==
    {i \in NormalizedRows : start <= NormalizedSec(i) /\ NormalizedSec(i) < start + period}

\* the rows among them that hold a value of the channel
Holding(col, start, period) ==
    {i \in InBucket(start, period) : ~isna(disk[OUT_CSV].cells[i][col])}

RECURSIVE SumOver(_, _)
\* the sum of the channel's numbers over a set of rows of the normalized file
SumOver(col, S) ==
    IF S = {} THEN Rat(0, 1)
    ELSE LET i == CHOOSE x \in S : TRUE
         IN  RAdd(AsNumber(col, disk[OUT_CSV].cells[i][col]).v, SumOver(col, S \ {i}))

\* C8: in every aggregated table, per bucket and channel, the mean is missing
\* exactly when no value contributes and is otherwise the sum of the values
\* over their number; the standard deviation is missing exactly when fewer
\* than two values contribute.
C8_MeanStdMissingExactlyWhenTooFew ==
    \A a \in AggregatedTables :
        \A k \in 1..Len(a.table.rows) :
            \A col \in DOMAIN a.table.rows[k].stat :
                LET b == a.table.rows[k]
                    H == Holding(col, b.datetime, a.period)
                    n == Cardinality(H)
                IN  /\ isna(b.stat[col].mean) <=> n = 0
                    /\ n > 0 => RMul(b.stat[col].mean.v, Rat(n, 1)) = SumOver(col, H)
                    /\ n = 1 => \A i \in H :
                           b.stat[col].mean.v = AsNumber(col, disk[OUT_CSV].cells[i][col]).v
                    /\ isna(b.stat[col].std) <=> n < 2

\* one table has, for the target, a bucket without a value, a bucket with
\* exactly one and a bucket with two or more
C8_Witness ==
    \E a \in AggregatedTables :
        /\ \E k \in 1..Len(a.table.rows) :
              Cardinality(Holding(TARGET, a.table.rows[k].datetime, a.period)) = 0
        /\ \E k \in 1..Len(a.table.rows) :
              /\ Cardinality(Holding(TARGET, a.table.rows[k].datetime, a.period)) = 1
              /\ isna(a.table.rows[k].stat[TARGET].std)
              /\ ~isna(a.table.rows[k].stat[TARGET].mean)
        /\ \E k \in 1..Len(a.table.rows) :
              /\ Cardinality(Holding(TARGET, a.table.rows[k].datetime, a.period)) >= 2
              /\ ~isna(a.table.rows[k].stat[TARGET].std)

\* C9: trimming a trimmed table changes nothing: the table process_dataframe
\* wrote is its own trim, and on every table the run holds a second trim
\* returns the result of the first.
C9_TrimIdempotent ==
    (OUT_CSV \in DOMAIN disk /\ TARGET \in ColSet(read_csv(disk[OUT_CSV]))) =>
        LET df   == read_csv(disk[OUT_CSV])
            once == trim_valid_range(df, TARGET)
        IN  /\ trim_valid_range(once, TARGET) = once
            /\ Processed => once = df

\* process_dataframe cut rows off the merged table
C9_Witness ==
    /\ Processed
    /\ TargetValid # {}
    /\ Len(disk[OUT_CSV].cells) < Len(merged_df.rows)
    /\ Len(disk[OUT_CSV].cells) > 1

\* C10: in every aggregated table each row of the normalized table lies in
\* exactly one bucket, the buckets ascend in steps of the interval without
\* gap or overlap, the first bucket holds the earliest row and the last
\* bucket the latest.
C10_BucketsCoverContiguously ==
    \A a \in AggregatedTables :
        LET B == a.table.rows
        IN  /\ \A i \in NormalizedRows :
                  Cardinality({k \in 1..Len(B) :
                      /\ B[k].datetime <= NormalizedSec(i)
                      /\ NormalizedSec(i) < B[k].datetime + a.period}) = 1
            /\ \A k \in 1..(Len(B) - 1) : B[k + 1].datetime = B[k].datetime + a.period
            /\ Len(B) >= 1
            /\ InBucket(B[1].datetime, a.period) # {}
            /\ InBucket(B[Len(B)].datetime, a.period) # {}

\* a table with a bucket that holds no row between buckets that hold rows
C10_Witness ==
    \E a \in AggregatedTables :
        \E k \in 2..(Len(a.table.rows) - 1) :
            /\ InBucket(a.table.rows[k].datetime, a.period) = {}
            /\ InBucket(a.table.rows[1].datetime, a.period) # {}
            /\ InBucket(a.table.rows[Len(a.table.rows)].datetime, a.period) # {}

====
